---- MODULE Spec2Model ----
(***************************************************************************)
(* Route_Finder: A* route search over a road multigraph with a distance-   *)
(* only ("simple") and a speed/condition/traffic ("advanced") heuristic.   *)
(*                                                                         *)
(* Three programs share the logic:                                         *)
(*   RF3  src/RouteFinder3.py  script: simple search, advanced search,     *)
(*        path lengths                                                     *)
(*   RF2  src/RouteFinder2.py  calculate_route: one search with the        *)
(*        edge-dependent heuristic, then distance and time statistics      *)
(*   RF1  src/RouteFinder1.py  calculate: both searches inside one try     *)
(*                                                                         *)
(* Numbers.  Lengths and distances are whole meters.  Times and the        *)
(* priorities of the search queue are fixed-point with TicksPerUnit ticks  *)
(* per unit, chosen so that every quotient distance / speed_mps of the     *)
(* program is an exact integer number of ticks (the program's floats are   *)
(* modelled as exact rationals).  float('inf') is the value Inf with       *)
(* saturating addition.                                                    *)
(***************************************************************************)
EXTENDS Integers, Sequences, FiniteSets, TLC

VARIABLES
    graph,            \* adjacency of the loaded MultiDiGraph: graph[u][v] = edge dicts in key order
    program,          \* which of the three programs runs
    origin,           \* origin_node / selected_points['origin'] / state['origin']
    destination,      \* destination_node / selected_points['destination'] / state['destination']
    pc,               \* "idle" (window waits for an event), "start" (before an astar_path
                      \* call), "search" (inside its loop), "done"
    heur,             \* heuristic handed to the astar_path call in progress
    queue,            \* astar_path: heap of (priority, count, node, dist, parent)
    enqueued,         \* astar_path: node -> (cost, h) of its latest push
    explored,         \* astar_path: node -> parent
    c,                \* astar_path: next value of the push counter
    expanded,         \* number of nodes expanded by the astar_path call in progress
    simple_path,      \* RF3 simple_path / RF1 path_s   (<<>> is None)
    advanced_path,    \* RF3 advanced_path / RF1 path_a / RF2 shortest_path   (<<>> is None)
    simple_length,    \* RF3 simple_length
    advanced_length,  \* RF3 advanced_length / RF2 route_length
    estimated_time,   \* RF2 estimated_time_min, in ticks
    outcome,          \* how the program's handler ended
    calc_active       \* calc_btn / calculate_button is active (a press calls its handler)

vars == <<graph, program, origin, destination, pc, heur, queue, enqueued, explored, c,
          expanded, simple_path, advanced_path, simple_length, advanced_length,
          estimated_time, outcome, calc_active>>

-----------------------------------------------------------------------------
(* Bounds of the model *)

\* meters between neighbouring grid lines of the node coordinates
GridStep == 10
\* meters by which a "long" edge exceeds the straight-line distance of its ends
Extra == 12
\* number of parallel edges of a doubled road
MaxParallel == 2
\* number of roads of a graph that are not plain residential roads
MaxSpecial == 1

-----------------------------------------------------------------------------
(* Values *)

\* Python None, as a node id
None == 0
\* float('inf')
Inf == 1000000000

Programs == {"RF1", "RF2", "RF3"}

Nodes == {1, 2, 3, 4}
\* ids that are not nodes of the graph
OtherIds == {5}

\* graph.nodes[n]["x"], graph.nodes[n]["y"], in grid units
Coord == [n \in Nodes |-> CASE n = 1 -> <<0, 1>>
                            [] n = 2 -> <<1, 2>>
                            [] n = 3 -> <<1, 0>>
                            [] n = 4 -> <<3, 1>>]

\* the nodes a run may start from
Origins == {1, 2}

\* node pairs that may be joined by a road
Pairs == {<<1, 2>>, <<1, 3>>, <<2, 3>>, <<2, 4>>, <<3, 4>>}

Min(a, b) == IF a <= b THEN a ELSE b

\* dict.get(key, default)
Get(d, key, default) == IF key \in DOMAIN d THEN d[key] ELSE default

\* x + y on floats with inf
Plus(a, b) == IF a >= Inf \/ b >= Inf THEN Inf ELSE a + b

-----------------------------------------------------------------------------
(* Fixed point *)

\* ticks per second (and per meter, for priorities); 360 * TicksPerUnit is a
\* multiple of every product speed_kmh * condition_factor * traffic_factor
TicksPerUnit == 7 * 8000
SpeedScale == 360 * TicksPerUnit

-----------------------------------------------------------------------------
(* geodesic(a, b).meters: the distance of two coordinates.  The ellipsoid  *)
(* is modelled by the plane over the few meters the nodes span, rounded up *)
(* to a whole meter (rounding up keeps the triangle inequality).           *)

CeilSqrt(n) == CHOOSE r \in 0..n : r * r >= n /\ (r = 0 \/ (r - 1) * (r - 1) < n)

GeoTable == [a \in Nodes, b \in Nodes |->
               LET dx == Coord[a][1] - Coord[b][1]
                   dy == Coord[a][2] - Coord[b][2]
               IN  CeilSqrt(GridStep * GridStep * (dx * dx + dy * dy))]

geodesic(a, b) == GeoTable[a, b]

-----------------------------------------------------------------------------
(* The road network.  graph_from_xml(..., bidirectional=True) stores every *)
(* road in both directions, so graph[u][v] = graph[v][u].  A road is the   *)
(* sequence of its parallel edges in key order (key 0 first); an edge is   *)
(* its attribute dict.                                                     *)

SpecialKinds == {"fast", "slow", "doubled", "nolen"}

Road(kind, u, v) ==
    LET d == geodesic(u, v)
    IN  CASE kind = "none"    -> <<>>
          [] kind = "plain"   -> <<[length |-> d, highway |-> "residential"]>>
          [] kind = "fast"    -> <<[length |-> d + Extra, highway |-> "motorway"]>>
          [] kind = "slow"    -> <<[length |-> d, highway |-> "residential",
                                    road_condition |-> "poor", traffic |-> "high"]>>
          [] kind = "doubled" -> [i \in 1..MaxParallel |->
                                    IF i < MaxParallel
                                    THEN [length |-> d + i * Extra, highway |-> "primary",
                                          road_condition |-> "average"]
                                    ELSE [length |-> d, highway |-> "secondary",
                                          traffic |-> "medium"]]
          [] kind = "nolen"   -> <<[highway |-> "track"]>>

\* the graphs of the model: any subset of Pairs as roads, at most MaxSpecial
\* of them of a special kind
Layouts == [Pairs -> {"none", "plain"} \cup SpecialKinds]

SpecialCount(layout) == Cardinality({p \in Pairs : layout[p] \in SpecialKinds})

GraphOf(layout) ==
    [u \in Nodes |-> [v \in Nodes |->
        IF <<u, v>> \in Pairs THEN Road(layout[<<u, v>>], u, v)
        ELSE IF <<v, u>> \in Pairs THEN Road(layout[<<v, u>>], v, u)
        ELSE <<>>]]

Graphs == {GraphOf(l) : l \in {x \in Layouts : SpecialCount(x) <= MaxSpecial}}

\* u in G
HasNode(u) == u \in DOMAIN graph
\* graph.get_edge_data(u, v): <<>> is None
get_edge_data(u, v) == graph[u][v]
\* G._adj[u] in iteration order
Successors(u) == {v \in DOMAIN graph : graph[u][v] # <<>>}

-----------------------------------------------------------------------------
(* Heuristics *)

speed_mapping == [motorway |-> 100, primary |-> 80, secondary |-> 60, residential |-> 40]
\* the factors in tenths
condition_factor == [good |-> 10, average |-> 8, poor |-> 5]
traffic_factor == [low |-> 10, medium |-> 7, high |-> 4]

\* base speed in km/h of an edge: speed_mapping.get(edge.get("highway", "residential"), 40)
base_speed_kmh(edge) == Get(speed_mapping, Get(edge, "highway", "residential"), 40)

\* high traffic taken for a standstill: traffic factor 0.0
speed_mps_standstill(edge) ==
    base_speed_kmh(edge)
      * Get(condition_factor, Get(edge, "road_condition", "good"), 10)
      * Get([low |-> 10, medium |-> 7, high |-> 0], Get(edge, "traffic", "low"), 10)

\* speed_mps of an edge, in units of 1/360 m/s:
\* (kmh * 1000 / 3600) * (cf / 10) * (tf / 10) = kmh * cf * tf / 360
speed_mps(edge) ==
    base_speed_kmh(edge)
      * Get(condition_factor, Get(edge, "road_condition", "good"), 10)
      * Get(traffic_factor, Get(edge, "traffic", "low"), 10)

\* distance / speed_mps if speed_mps > 0 else inf, in ticks
TimeOver(distance, speed) ==
    IF speed > 0 THEN (distance * SpeedScale) \div speed ELSE Inf

\* a heuristic that overestimates: three times the distance
simple_heuristic_tripled(u, v) == 3 * geodesic(u, v) * TicksPerUnit

\* simple_heuristic(u, v), in ticks
simple_heuristic(u, v) == geodesic(u, v) * TicksPerUnit

\* advanced_heuristic(u, v) (RF2: heuristic), in ticks
advanced_heuristic(u, v) ==
    LET distance == geodesic(u, v)
        edge_data == get_edge_data(u, v)
    IN  IF edge_data = <<>> THEN Inf
        ELSE TimeOver(distance, speed_mps(edge_data[1]))

heuristic(h, u, v) ==
    IF h = "simple" THEN simple_heuristic(u, v) ELSE advanced_heuristic(u, v)

-----------------------------------------------------------------------------
(* nx.astar_path(graph, source, target, heuristic=..., weight="length"),   *)
(* the networkx 2.x / 3.x routine the three programs call: a heap of       *)
(* (cost + h, count, node, cost, parent), the dicts enqueued and explored, *)
(* the heuristic evaluated once per node on its first push.                *)

\* _weight_function(G, "length") of a multigraph:
\* min(attr.get("length", 1) for attr in d.values())
RECURSIVE MinLength(_, _)
MinLength(edge_data, i) ==
    LET w == Get(edge_data[i], "length", 1)
    IN  IF i = Len(edge_data) THEN w ELSE Min(w, MinLength(edge_data, i + 1))

weight(u, v) == MinLength(graph[u][v], 1)

\* heap order of the tuples (priority, count, ...): count is unique
Before(a, b) == a.f < b.f \/ (a.f = b.f /\ a.c <= b.c)

\* heappop(queue)
Top(q) == CHOOSE e \in q : \A o \in q : Before(e, o)

\* the body of "for neighbor, w in G_succ[curnode].items()" for one neighbor;
\* st = [queue, enqueued, c]
Relax(st, curnode, dist, neighbor, target, h) ==
    LET ncost == dist + weight(curnode, neighbor)
        seen  == neighbor \in DOMAIN st.enqueued
        hval  == IF seen THEN st.enqueued[neighbor].h ELSE heuristic(h, neighbor, target)
    IN  IF seen /\ st.enqueued[neighbor].qcost <= ncost
        THEN st
        ELSE [queue    |-> st.queue \cup {[f |-> Plus(ncost * TicksPerUnit, hval), c |-> st.c,
                                           node |-> neighbor, dist |-> ncost,
                                           parent |-> curnode]},
              enqueued |-> [n \in DOMAIN st.enqueued \cup {neighbor} |->
                              IF n = neighbor THEN [qcost |-> ncost, h |-> hval]
                              ELSE st.enqueued[n]],
              c        |-> st.c + 1]

\* the for loop over the neighbours of curnode, in adjacency order (the
\* nodes in ascending id order)
RECURSIVE Expand(_, _, _, _, _, _)
Expand(st, curnode, dist, todo, target, h) ==
    IF todo = {} THEN st
    ELSE LET n == CHOOSE x \in todo : \A y \in todo : x <= y
         IN  Expand(Relax(st, curnode, dist, n, target, h), curnode, dist,
                    todo \ {n}, target, h)

\* the path rebuilt from the parent links: [curnode], then parent, explored[parent], ...
RECURSIVE Walk(_, _)
Walk(node, expl) ==
    IF node = None THEN <<>> ELSE Append(Walk(expl[node], expl), node)

\* the path without path.reverse(): from the goal back to the origin
RECURSIVE WalkBack(_, _)
WalkBack(node, expl) ==
    IF node = None THEN <<>> ELSE <<node>> \o WalkBack(expl[node], expl)

Reconstruct_NotReversed(curnode, parent, expl) == <<curnode>> \o WalkBack(parent, expl)

Reconstruct(curnode, parent, expl) == Append(Walk(parent, expl), curnode)

-----------------------------------------------------------------------------
(* Route statistics *)

\* a missing length counted as 1, as the search's weight does
RECURSIVE path_length_default1(_, _)
path_length_default1(path, i) ==
    IF i >= Len(path) THEN 0
    ELSE Get(graph[path[i]][path[i + 1]][1], "length", 1) + path_length_default1(path, i + 1)

\* sum(graph[p[i]][p[i+1]][0].get('length', 0) for i in range(len(p) - 1))
RECURSIVE path_length(_, _)
path_length(path, i) ==
    IF i >= Len(path) THEN 0
    ELSE Get(graph[path[i]][path[i + 1]][1], "length", 0) + path_length(path, i + 1)

\* the segment time with the full speed of the heuristic
segment_time_full(edge) == TimeOver(Get(edge, "length", 0), speed_mps(edge))

\* RF2: one segment of estimated_time_min, in ticks:
\* (edge.get('length', 0) / 1000) / speed_kmh * 60 minutes = length * 3.6 / speed_kmh seconds
segment_time(edge) ==
    (Get(edge, "length", 0) * SpeedScale) \div (base_speed_kmh(edge) * 100)

RECURSIVE estimated_time_min(_, _)
estimated_time_min(path, i) ==
    IF i >= Len(path) THEN 0
    ELSE segment_time(get_edge_data(path[i], path[i + 1])[1]) + estimated_time_min(path, i + 1)

-----------------------------------------------------------------------------
(* The programs *)

NoSearch ==
    /\ queue' = {}
    /\ enqueued' = <<>>
    /\ explored' = <<>>
    /\ c' = 0

\* the statement after an astar_path call that returned path
Return(path) ==
    /\ NoSearch
    /\ expanded' = expanded
    /\ CASE program = "RF2" ->
              \* calculate_route: route_length, estimated_time_min, the title
              /\ advanced_path' = path
              /\ advanced_length' = path_length(path, 1)
              /\ estimated_time' = estimated_time_min(path, 1)
              /\ outcome' = "Route found!"
              /\ pc' = "done"
              /\ UNCHANGED <<heur, simple_path, simple_length>>
         [] program # "RF2" /\ heur = "simple" ->
              \* the advanced search follows
              /\ simple_path' = path
              /\ heur' = "advanced"
              /\ pc' = "start"
              /\ UNCHANGED <<advanced_path, simple_length, advanced_length,
                             estimated_time, outcome>>
         [] program = "RF3" /\ heur = "advanced" ->
              \* "if simple_path and advanced_path:" the two lengths
              /\ advanced_path' = path
              /\ simple_length' = IF simple_path # <<>>
                                  THEN path_length(simple_path, 1) ELSE simple_length
              /\ advanced_length' = IF simple_path # <<>>
                                    THEN path_length(path, 1) ELSE advanced_length
              /\ outcome' = "finished"
              /\ pc' = "done"
              /\ UNCHANGED <<heur, simple_path, estimated_time>>
         [] program = "RF1" /\ heur = "advanced" ->
              /\ advanced_path' = path
              /\ outcome' = "routes drawn"
              /\ pc' = "done"
              /\ UNCHANGED <<heur, simple_path, simple_length, advanced_length,
                             estimated_time>>

\* no handler: any exception ends the program
Raise_Unhandled(exc) ==
    /\ NoSearch
    /\ outcome' = "uncaught exception"
    /\ pc' = "done"
    /\ UNCHANGED <<heur, expanded, simple_path, advanced_path, simple_length,
                   advanced_length, estimated_time>>

\* one handler for everything: any exception is shown as "no path"
Raise_AllNoPath(exc) ==
    /\ NoSearch
    /\ outcome' = CASE program = "RF2" -> "No route found between selected points"
                    [] program = "RF1" -> "Routing Error: Node not reachable"
                    [] program = "RF3" -> "finished"
    /\ pc' = "done"
    /\ UNCHANGED <<heur, expanded, simple_path, advanced_path, simple_length,
                   advanced_length, estimated_time>>

\* an astar_path call that raised exc ("NodeNotFound" or "NetworkXNoPath")
Raise(exc) ==
    /\ NoSearch
    /\ expanded' = expanded
    /\ UNCHANGED <<simple_length, advanced_length, estimated_time>>
    /\ CASE program = "RF2" ->
              /\ outcome' = IF exc = "NetworkXNoPath"
                            THEN "No route found between selected points"
                            ELSE "Error calculating route"
              /\ pc' = "done"
              /\ UNCHANGED <<heur, simple_path, advanced_path>>
         [] program = "RF1" ->
              \* except Exception as e: print(f"Routing Error: {e}")
              /\ outcome' = IF exc = "NetworkXNoPath"
                            THEN "Routing Error: Node not reachable"
                            ELSE "Routing Error: Either source or target is not in G"
              /\ pc' = "done"
              /\ UNCHANGED <<heur, simple_path, advanced_path>>
         [] program = "RF3" /\ exc # "NetworkXNoPath" ->
              \* only nx.NetworkXNoPath is caught: the script dies
              /\ outcome' = "uncaught NodeNotFound"
              /\ pc' = "done"
              /\ UNCHANGED <<heur, simple_path, advanced_path>>
         [] program = "RF3" /\ exc = "NetworkXNoPath" /\ heur = "simple" ->
              /\ simple_path' = <<>>
              /\ heur' = "advanced"
              /\ pc' = "start"
              /\ UNCHANGED <<advanced_path, outcome>>
         [] program = "RF3" /\ exc = "NetworkXNoPath" /\ heur = "advanced" ->
              /\ advanced_path' = <<>>
              /\ outcome' = "finished"
              /\ pc' = "done"
              /\ UNCHANGED <<heur, simple_path>>

\* the call of astar_path: the check of the two nodes, the first queue entry
AstarBegin ==
    /\ pc = "start"
    /\ UNCHANGED <<graph, program, origin, destination, calc_active>>
    /\ IF program = "RF2" /\ (origin = None \/ destination = None)
       THEN /\ outcome' = "Please select both origin and destination points"
            /\ pc' = "done"
            /\ UNCHANGED <<heur, queue, enqueued, explored, c, expanded, simple_path,
                           advanced_path, simple_length, advanced_length, estimated_time>>
       ELSE IF program = "RF1" /\ (origin = None \/ destination = None)
       THEN /\ pc' = "done"
            /\ UNCHANGED <<heur, queue, enqueued, explored, c, expanded, simple_path,
                           advanced_path, simple_length, advanced_length, estimated_time,
                           outcome>>
       ELSE IF ~HasNode(origin) \/ ~HasNode(destination)
       THEN Raise("NodeNotFound")
       ELSE /\ queue' = {[f |-> 0, c |-> 0, node |-> origin, dist |-> 0, parent |-> None]}
            /\ c' = 1
            /\ enqueued' = <<>>
            /\ explored' = <<>>
            /\ expanded' = 0
            /\ pc' = "search"
            /\ UNCHANGED <<heur, simple_path, advanced_path, simple_length,
                           advanced_length, estimated_time, outcome>>

\* one iteration of "while queue:"
AstarStep ==
    /\ pc = "search"
    /\ queue # {}
    /\ UNCHANGED <<graph, program, origin, destination, calc_active>>
    /\ LET e == Top(queue)
           rest == queue \ {e}
       IN  IF e.node = destination
           THEN Return(Reconstruct(e.node, e.parent, explored))
           ELSE IF /\ e.node \in DOMAIN explored
                   /\ \/ explored[e.node] = None
                      \/ enqueued[e.node].qcost < e.dist
           THEN /\ queue' = rest
                /\ UNCHANGED <<pc, heur, enqueued, explored, c, expanded, simple_path,
                               advanced_path, simple_length, advanced_length,
                               estimated_time, outcome>>
           ELSE LET st == Expand([queue |-> rest, enqueued |-> enqueued, c |-> c],
                                 e.node, e.dist, Successors(e.node), destination, heur)
                IN  /\ explored' = [n \in DOMAIN explored \cup {e.node} |->
                                      IF n = e.node THEN e.parent ELSE explored[n]]
                    /\ queue' = st.queue
                    /\ enqueued' = st.enqueued
                    /\ c' = st.c
                    /\ expanded' = expanded + 1
                    /\ UNCHANGED <<pc, heur, simple_path, advanced_path, simple_length,
                                   advanced_length, estimated_time, outcome>>

\* the queue ran empty: raise nx.NetworkXNoPath
AstarExhausted ==
    /\ pc = "search"
    /\ queue = {}
    /\ UNCHANGED <<graph, program, origin, destination, calc_active>>
    /\ Raise("NetworkXNoPath")

InitRun ==
    /\ program \in Programs
    /\ pc = "start"
    /\ heur = IF program = "RF2" THEN "advanced" ELSE "simple"
    /\ queue = {}
    /\ enqueued = <<>>
    /\ explored = <<>>
    /\ c = 0
    /\ expanded = 0
    /\ simple_path = <<>>
    /\ advanced_path = <<>>
    /\ simple_length = 0
    /\ advanced_length = 0
    /\ estimated_time = 0
    /\ outcome = "running"
    \* the interactive programs run a calculation on a press of the active button
    /\ calc_active = (program # "RF3")

\* the programs as they run: nearest_nodes hands them nodes of the graph
Init ==
    /\ graph \in Graphs
    /\ origin \in Origins
    /\ destination \in Nodes
    /\ InitRun

\* the route calculation as a function of any two ids, nodes of the graph or not
InitAnyIds ==
    /\ graph \in Graphs
    /\ origin \in Origins \cup OtherIds
    /\ destination \in Nodes \cup OtherIds
    /\ InitRun

Next == AstarBegin \/ AstarStep \/ AstarExhausted

Spec == Init /\ [][Next]_vars

SpecAnyIds == InitAnyIds /\ [][Next]_vars

-----------------------------------------------------------------------------
(* Graphs with one road of any attributes: every road class, condition and *)
(* traffic level the programs know, a value they do not know, and the      *)
(* attribute missing.                                                      *)

Absent == "absent"
HighwayValues == {"motorway", "primary", "secondary", "residential", "track", Absent}
ConditionValues == {"good", "average", "poor", "flooded", Absent}
TrafficValues == {"low", "medium", "high", "jam", Absent}

AttrEdge(len, h, rc, t) ==
    [k \in {"length"} \cup (IF h = Absent THEN {} ELSE {"highway"})
                      \cup (IF rc = Absent THEN {} ELSE {"road_condition"})
                      \cup (IF t = Absent THEN {} ELSE {"traffic"}) |->
        CASE k = "length"         -> len
          [] k = "highway"        -> h
          [] k = "road_condition" -> rc
          [] k = "traffic"        -> t]

\* the pairs the road of any attributes may join
AttrPairs == {<<1, 2>>, <<2, 4>>}

AttrGraphOf(p, edge, rest) ==
    [u \in Nodes |-> [v \in Nodes |->
        IF <<u, v>> = p \/ <<v, u>> = p THEN <<edge>>
        ELSE IF <<u, v>> \in Pairs THEN Road(rest, u, v)
        ELSE IF <<v, u>> \in Pairs THEN Road(rest, v, u)
        ELSE <<>>]]

AttrGraphs ==
    {AttrGraphOf(p, AttrEdge(geodesic(p[1], p[2]) + x, h, rc, t), rest) :
        p \in AttrPairs, x \in {0, Extra}, h \in HighwayValues,
        rc \in ConditionValues, t \in TrafficValues, rest \in {"none", "plain"}}

InitAttrs ==
    /\ graph \in AttrGraphs
    /\ origin \in Origins
    /\ destination \in Nodes
    /\ InitRun

SpecAttrs == InitAttrs /\ [][Next]_vars

-----------------------------------------------------------------------------
(* The windows of the interactive programs RF1 and RF2: map clicks, the    *)
(* calculate button and the reset / clear button. The event loop runs one  *)
(* handler at a time, so events are taken when no handler is running.      *)

Interactive == {"RF1", "RF2"}

Waiting == pc \in {"idle", "done"}

\* a later click takes the place of the origin
on_click_reselect(inaxes, node) ==
    /\ Waiting
    /\ origin' = IF inaxes THEN node ELSE origin
    /\ UNCHANGED <<graph, program, destination, pc, heur, queue, enqueued, explored, c,
                   expanded, simple_path, advanced_path, simple_length,
                   advanced_length, estimated_time, outcome, calc_active>>

\* button_press_event on the figure; node is nearest_nodes of the click
on_click(inaxes, node) ==
    /\ Waiting
    /\ UNCHANGED <<graph, program, pc, heur, queue, enqueued, explored, c, expanded,
                   simple_path, advanced_path, simple_length, advanced_length,
                   estimated_time>>
    /\ IF ~inaxes
       THEN UNCHANGED <<origin, destination, calc_active, outcome>>
       ELSE IF origin = None
       THEN /\ origin' = node
            /\ outcome' = IF program = "RF2" THEN "Now click to select destination"
                                             ELSE outcome
            /\ UNCHANGED <<destination, calc_active>>
       ELSE IF destination = None
       THEN /\ destination' = node
            /\ calc_active' = TRUE
            /\ outcome' = IF program = "RF2"
                          THEN "Click 'Calculate Route' button to find the path"
                          ELSE outcome
            /\ UNCHANGED origin
       ELSE UNCHANGED <<origin, destination, calc_active, outcome>>

\* a press of the calculate button: an active button calls its handler
calculate ==
    /\ Waiting
    /\ calc_active
    /\ pc' = "start"
    /\ heur' = IF program = "RF2" THEN "advanced" ELSE "simple"
    /\ UNCHANGED <<graph, program, origin, destination, queue, enqueued, explored, c,
                   expanded, simple_path, advanced_path, simple_length,
                   advanced_length, estimated_time, outcome, calc_active>>

\* a press of the reset button (RF1 reset, RF2 clear_selections)
reset ==
    /\ Waiting
    /\ origin' = None
    /\ destination' = None
    /\ calc_active' = FALSE
    /\ pc' = "idle"
    /\ outcome' = IF program = "RF2" THEN "Click on map to select starting point"
                                     ELSE outcome
    /\ UNCHANGED <<graph, program, heur, queue, enqueued, explored, c, expanded,
                   simple_path, advanced_path, simple_length, advanced_length,
                   estimated_time>>

WindowGraphs ==
    {AttrGraphOf(p, Road("plain", p[1], p[2])[1], rest) :
        p \in AttrPairs, rest \in {"none", "plain"}}

\* the window as plt.show() opens it
InitWindow ==
    /\ graph \in WindowGraphs
    /\ program \in Interactive
    /\ origin = None
    /\ destination = None
    /\ pc = "idle"
    \* RF2 starts its button disabled; RF1 leaves its button as Button() made it
    /\ calc_active = (program = "RF1")
    /\ outcome = IF program = "RF2" THEN "Click on map to select starting point"
                                    ELSE "running"
    /\ heur = IF program = "RF2" THEN "advanced" ELSE "simple"
    /\ queue = {}
    /\ enqueued = <<>>
    /\ explored = <<>>
    /\ c = 0
    /\ expanded = 0
    /\ simple_path = <<>>
    /\ advanced_path = <<>>
    /\ simple_length = 0
    /\ advanced_length = 0
    /\ estimated_time = 0

NextWindow ==
    \/ \E inaxes \in BOOLEAN, node \in Nodes : on_click(inaxes, node)
    \/ calculate
    \/ reset
    \/ AstarBegin
    \/ AstarStep
    \/ AstarExhausted

SpecWindow == InitWindow /\ [][NextWindow]_vars

-----------------------------------------------------------------------------
(* Reference notions the properties are stated with: paths of the graph    *)
(* and their costs, computed by enumeration, not by search.                *)

Range(p) == {p[i] : i \in 1..Len(p)}

\* the simple paths of the graph that extend p to v
RECURSIVE PathsFrom(_, _)
PathsFrom(p, v) ==
    IF p[Len(p)] = v THEN {p}
    ELSE UNION {PathsFrom(Append(p, w), v) : w \in Successors(p[Len(p)]) \ Range(p)}

AllPaths(u, v) == PathsFrom(<<u>>, v)

Connected(u, v) == AllPaths(u, v) # {}

Least(S) == CHOOSE x \in S : \A y \in S : x <= y

\* every edge has a length, and it is at least the distance of its ends
WellMeasured ==
    \A u \in Nodes, v \in Nodes : \A i \in 1..Len(graph[u][v]) :
        /\ "length" \in DOMAIN graph[u][v][i]
        /\ graph[u][v][i].length >= geodesic(u, v)

\* the length of the shortest of the parallel edges u -> v
ArcLength(u, v) == Least({graph[u][v][i].length : i \in 1..Len(graph[u][v])})

\* the Advanced time of the quickest of the parallel edges u -> v, in ticks
ArcTime(u, v) ==
    Least({TimeOver(graph[u][v][i].length, speed_mps(graph[u][v][i])) :
             i \in 1..Len(graph[u][v])})

RECURSIVE TotalLength(_)
TotalLength(p) ==
    IF Len(p) <= 1 THEN 0
    ELSE ArcLength(p[1], p[2]) + TotalLength(Tail(p))

RECURSIVE TotalTime(_)
TotalTime(p) ==
    IF Len(p) <= 1 THEN 0
    ELSE ArcTime(p[1], p[2]) + TotalTime(Tail(p))

MinLengthOver(u, v) == Least({TotalLength(p) : p \in AllPaths(u, v)})
MinTimeOver(u, v) == Least({TotalTime(p) : p \in AllPaths(u, v)})

\* the simple search of RF1 / RF3 has ended
SimpleSearched == program # "RF2" /\ (heur = "advanced" \/ pc = "done")

-----------------------------------------------------------------------------
(* C1: on a graph whose edges all have a length of at least the distance   *)
(* of their ends, the search with the simple heuristic and weight="length" *)
(* returns, for every connected origin and destination, a path whose total *)
(* length is the least total length of all paths between them.             *)
C1_SimpleOptimal ==
    (SimpleSearched /\ WellMeasured /\ Connected(origin, destination))
        => /\ simple_path # <<>>
           /\ TotalLength(simple_path) = MinLengthOver(origin, destination)

\* a two-hop route was returned although a direct, longer road exists
C1_Witness ==
    /\ SimpleSearched /\ WellMeasured
    /\ Len(simple_path) = 3
    /\ graph[origin][destination] # <<>>
    /\ TotalLength(simple_path) < ArcLength(origin, destination)


-----------------------------------------------------------------------------
(* C2: the search run with the advanced heuristic minimises travel time:   *)
(* whenever some route is strictly quicker than the route of the simple    *)
(* search, the advanced route differs from the simple one and its total    *)
(* time is the least total time of all paths.                              *)
C2_AdvancedMinimisesTime ==
    ( /\ program = "RF3" /\ pc = "done" /\ WellMeasured
      /\ simple_path # <<>> /\ advanced_path # <<>>
      /\ MinTimeOver(origin, destination) < TotalTime(simple_path) )
        => /\ advanced_path # simple_path
           /\ TotalTime(advanced_path) = MinTimeOver(origin, destination)

-----------------------------------------------------------------------------
(* C3: both heuristics are admissible: for all nodes u, v joined by a path *)
(* the simple heuristic is at most the least total length and the advanced *)
(* heuristic at most the least total time of the paths from u to v.        *)
C3_Admissible ==
    WellMeasured =>
        \A u \in Nodes, v \in Nodes :
            Connected(u, v) =>
                /\ simple_heuristic(u, v) <= MinLengthOver(u, v) * TicksPerUnit
                /\ advanced_heuristic(u, v) <= MinTimeOver(u, v)

-----------------------------------------------------------------------------
(* C4: both heuristics are consistent: zero from a node to itself, and for *)
(* every edge n -> m and goal t, h(n, t) <= cost(n, m) + h(m, t).          *)
C4_Consistent ==
    WellMeasured =>
        \A t \in Nodes :
            /\ simple_heuristic(t, t) = 0
            /\ advanced_heuristic(t, t) = 0
            /\ \A n \in Nodes : \A m \in Successors(n) :
                  /\ simple_heuristic(n, t)
                       <= Plus(ArcLength(n, m) * TicksPerUnit, simple_heuristic(m, t))
                  /\ advanced_heuristic(n, t)
                       <= Plus(ArcTime(n, m), advanced_heuristic(m, t))

-----------------------------------------------------------------------------
(* How a program shows that no path exists / that a node is missing *)

NoPathReported ==
    CASE program = "RF2" -> outcome = "No route found between selected points"
      [] program = "RF1" -> outcome = "Routing Error: Node not reachable"
      [] program = "RF3" -> outcome = "finished" /\ simple_path = <<>> /\ advanced_path = <<>>

NodeNotFoundReported ==
    CASE program = "RF2" -> outcome = "Error calculating route"
      [] program = "RF1" -> outcome = "Routing Error: Either source or target is not in G"
      [] program = "RF3" -> outcome = "uncaught NodeNotFound"

\* the largest weight of a road, and a cost no queue entry reaches
Greatest(S) == CHOOSE x \in S : \A y \in S : x >= y
MaxWeight == Greatest(UNION {{weight(u, v) : v \in Successors(u)} : u \in Nodes} \cup {1})
CostCap == 1 + Cardinality(Nodes) * MaxWeight
CallCap == Cardinality(Nodes) * CostCap + 2

\* a natural number that every step of a program lowers: the astar_path
\* calls still to make, and within a call the costs that pushes can still
\* lower plus the entries still to pop
Rank ==
    LET calls  == IF pc = "done" THEN 0
                  ELSE IF program # "RF2" /\ heur = "simple" THEN 2 ELSE 1
        within == CASE pc = "done"   -> 0
                    [] pc = "start"  -> CallCap
                    [] pc = "search" ->
                         LET cost(n) == IF n \in DOMAIN enqueued
                                        THEN enqueued[n].qcost ELSE CostCap
                             RECURSIVE Sum(_)
                             Sum(S) == IF S = {} THEN 0
                                       ELSE LET n == CHOOSE x \in S : TRUE
                                            IN  cost(n) + Sum(S \ {n})
                         IN  Sum(Nodes) + Cardinality(queue)
    IN  calls * (CallCap + 1) + within

(* C5: when no path joins origin and destination, no step raises an        *)
(* uncaught exception, every step brings the end nearer (so each search    *)
(* ends after emptying its queue), and the program ends showing "no        *)
(* path", with either heuristic.                                           *)
C5_NoPathTerminates ==
    /\ [](~Connected(origin, destination) =>
            /\ pc # "done" => ENABLED Next
            /\ pc = "done" => NoPathReported
            /\ Rank >= 0)
    /\ [][~Connected(origin, destination) => Rank' < Rank]_vars

\* the advanced search emptied its queue after expanding a whole component
C5_Witness ==
    /\ ~Connected(origin, destination)
    /\ pc = "done" /\ NoPathReported
    /\ heur = "advanced" /\ expanded >= 3

-----------------------------------------------------------------------------
(* C6: an origin or destination that is no node of the graph is reported   *)
(* before any node is expanded, and not as "no path".                      *)
C6_NodeNotFound ==
    (~HasNode(origin) \/ ~HasNode(destination))
        => /\ pc # "search"
           /\ expanded = 0
           /\ pc = "done" => (NodeNotFoundReported /\ ~NoPathReported)

C6_Witness ==
    /\ HasNode(origin) /\ ~HasNode(destination)
    /\ program = "RF2" /\ pc = "done" /\ NodeNotFoundReported

-----------------------------------------------------------------------------
(* C7: a returned path starts at the origin, ends at the destination, and  *)
(* each of its steps is an edge of the graph; from a node to itself it is  *)
(* that node alone.                                                        *)
WellFormed(p) ==
    /\ p[1] = origin
    /\ p[Len(p)] = destination
    /\ \A i \in 1..(Len(p) - 1) : graph[p[i]][p[i + 1]] # <<>>
    /\ origin = destination => p = <<origin>>

C7_PathWellFormed ==
    /\ simple_path # <<>> => WellFormed(simple_path)
    /\ advanced_path # <<>> => WellFormed(advanced_path)

C7_Witness ==
    /\ pc = "done" /\ Len(advanced_path) = 4 /\ Len(simple_path) = 3

-----------------------------------------------------------------------------
(* The summed time of a path over the first edge of each step, with the    *)
(* Advanced formula (FullTime) and with the road class alone (ClassTime)   *)

FirstEdge(p, i) == graph[p[i]][p[i + 1]][1]

ClassKmh(edge) ==
    IF "highway" \notin DOMAIN edge THEN 40
    ELSE CASE edge.highway = "motorway"  -> 100
           [] edge.highway = "primary"   -> 80
           [] edge.highway = "secondary" -> 60
           [] OTHER -> 40

RECURSIVE SumTo(_, _, _)
\* the sum of Term(p, i) for i in 1..k
SumTo(Term(_, _), p, k) == IF k <= 0 THEN 0 ELSE SumTo(Term, p, k - 1) + Term(p, k)

FullTerm(p, i) == TimeOver(FirstEdge(p, i).length, speed_mps(FirstEdge(p, i)))
ClassTerm(p, i) ==
    (Get(FirstEdge(p, i), "length", 0) * 360 * TicksPerUnit) \div (100 * ClassKmh(FirstEdge(p, i)))
LengthTerm(p, i) ==
    IF "length" \in DOMAIN FirstEdge(p, i) THEN FirstEdge(p, i).length ELSE 0
WeightTerm(p, i) == weight(p[i], p[i + 1])

FullTime(p) == SumTo(FullTerm, p, Len(p) - 1)
ClassTime(p) == SumTo(ClassTerm, p, Len(p) - 1)
FirstEdgeLength(p) == SumTo(LengthTerm, p, Len(p) - 1)
SearchCost(p) == SumTo(WeightTerm, p, Len(p) - 1)

RouteFound == program = "RF2" /\ outcome = "Route found!"

(* C8 as stated: the reported time of a found route is the sum, over its   *)
(* steps, of length / (base speed * condition factor * traffic factor).    *)
C8_TimeFullFormula ==
    (RouteFound /\ WellMeasured) => estimated_time = FullTime(advanced_path)

(* C8 as amended: the reported time of a found route is the sum, over its  *)
(* steps, of the length of the step's first edge divided by the base speed *)
(* of its road class, without condition and traffic factors.               *)
C8_TimeBaseSpeed ==
    RouteFound => estimated_time = ClassTime(advanced_path)

\* a found route over a congested road in poor condition
C8_Witness ==
    /\ RouteFound /\ WellMeasured
    /\ Len(advanced_path) >= 3
    /\ estimated_time < FullTime(advanced_path)

-----------------------------------------------------------------------------
(* C9: the reported distance of a found path is the sum of the lengths of  *)
(* the first edge of each step, a missing length counting 0; a path of one *)
(* node has distance 0 and time 0.                                         *)
C9_Distance ==
    /\ RouteFound =>
          /\ advanced_length = FirstEdgeLength(advanced_path)
          /\ Len(advanced_path) = 1 => (advanced_length = 0 /\ estimated_time = 0)
    /\ (program = "RF3" /\ pc = "done" /\ simple_path # <<>> /\ advanced_path # <<>>) =>
          /\ simple_length = FirstEdgeLength(simple_path)
          /\ advanced_length = FirstEdgeLength(advanced_path)
          /\ Len(simple_path) = 1 => simple_length = 0
          /\ Len(advanced_path) = 1 => advanced_length = 0

\* a found route of several steps, one of them over an edge without length
C9_Witness ==
    /\ RouteFound
    /\ Len(advanced_path) >= 3
    /\ \E i \in 1..(Len(advanced_path) - 1) : "length" \notin DOMAIN FirstEdge(advanced_path, i)
    /\ advanced_length > 0

-----------------------------------------------------------------------------
(* C10: one edge of each road is used by the search and by the summary, so *)
(* the reported distance of a found route equals the cumulative weight the *)
(* search minimised for it.                                                *)
C10_OneEdgeRule ==
    (RouteFound /\ WellMeasured) => advanced_length = SearchCost(advanced_path)

-----------------------------------------------------------------------------
\* 100 km/h with condition and traffic factors 1.0, in units of 1/360 m/s
BestSpeed == 100 * 10 * 10

\* the advanced search holds a finite estimate for a node n
Estimated(n) ==
    /\ pc = "search" /\ heur = "advanced"
    /\ n \in DOMAIN enqueued
    /\ enqueued[n].h < Inf

(* C11: the Advanced time computed for an edge is at least the   *)
(* edge's length divided by the best-case speed.                           *)
C11_AboveLengthBound ==
    \A u \in Nodes, v \in Nodes :
        (graph[u][v] # <<>> /\ "length" \in DOMAIN graph[u][v][1])
            => advanced_heuristic(u, v) >= TimeOver(graph[u][v][1].length, BestSpeed)

(* What the code does keep: the time it computes for an edge u -> v is at *)
(* least the straight-line distance of u and v over the best-case speed.   *)
AboveDistanceBound ==
    /\ \A u \in Nodes, v \in Nodes :
          graph[u][v] # <<>>
              => advanced_heuristic(u, v) >= TimeOver(geodesic(u, v), BestSpeed)
    /\ \A n \in Nodes :
          Estimated(n) => enqueued[n].h >= TimeOver(geodesic(n, destination), BestSpeed)

-----------------------------------------------------------------------------
(* C12: the speed of every edge is positive, whatever its attributes; the  *)
(* advanced heuristic is +infinity exactly for the node pairs without an   *)
(* edge and finite and non-negative for the others.                        *)
C12_InfiniteOnlyWithoutEdge ==
    /\ \A u \in Nodes, v \in Nodes :
          /\ graph[u][v] = <<>> <=> advanced_heuristic(u, v) = Inf
          /\ graph[u][v] # <<>> =>
                /\ speed_mps(graph[u][v][1]) > 0
                /\ advanced_heuristic(u, v) >= 0
                /\ advanced_heuristic(u, v) < Inf
    /\ (pc = "search" /\ heur = "advanced") =>
          \A n \in DOMAIN enqueued :
              enqueued[n].h = Inf <=> graph[n][destination] = <<>>

\* the search holds an infinite estimate and a finite one over the slowest edge
C12_Witness ==
    \E n \in Nodes, m \in Nodes :
        /\ Estimated(n)
        /\ Get(graph[n][destination][1], "road_condition", Absent) = "poor"
        /\ Get(graph[n][destination][1], "traffic", Absent) = "high"
        /\ pc = "search" /\ m \in DOMAIN enqueued /\ enqueued[m].h = Inf

-----------------------------------------------------------------------------
BothSelected == origin # None /\ destination # None

(* C13: in every state of the window the calculate button is active       *)
(* exactly when an origin and a destination are both selected, and no      *)
(* search runs with an endpoint missing.                                   *)
C13_ActiveIffBothSelected ==
    /\ calc_active <=> BothSelected
    /\ pc = "search" => BothSelected

-----------------------------------------------------------------------------
(* C14: a map click with nothing selected sets the origin alone, the next  *)
(* sets the destination alone, a click with both selected changes neither; *)
(* the calculation, from the button press to its end, never changes the    *)
(* selection; reset can be pressed whenever the window waits and leaves    *)
(* both unselected and the button inactive.                                *)
C14_SelectionFrame ==
    /\ [](Waiting => ENABLED reset)
    /\ [][/\ \A node \in Nodes :
              on_click(TRUE, node) =>
                  /\ origin = None =>
                        origin' = node /\ destination' = destination
                  /\ (origin # None /\ destination = None) =>
                        origin' = origin /\ destination' = node
                  /\ BothSelected =>
                        origin' = origin /\ destination' = destination
          /\ (calculate \/ AstarBegin \/ AstarStep \/ AstarExhausted) =>
                UNCHANGED <<origin, destination>>
          /\ reset => (origin' = None /\ destination' = None /\ ~calc_active')]_vars

\* a route was calculated for a selection made of two clicks on different nodes
C14_Witness ==
    /\ program \in Interactive
    /\ pc = "done"
    /\ BothSelected
    /\ origin # destination
    /\ advanced_path # <<>>
    /\ calc_active

====
